---- MODULE Spec2Model ----
(***************************************************************************)
(* NutriTrack AI (src/src/App.jsx): one user session of the React client   *)
(* against the document store (profile/data, meals, daily_stats/<date>)    *)
(* and the inference endpoint.                                             *)
(*                                                                         *)
(* Every await of the source is a suspension point: the request is put in  *)
(* flight by the action that models the handler up to the await, and a     *)
(* later action models the continuation (resolution or rejection).         *)
(* Numbers are exact: the decimal coefficients of the calculator are kept  *)
(* as integers scaled by 1000 and the multipliers as fractions.            *)
(***************************************************************************)
EXTENDS Integers, Sequences, FiniteSets, TLC

(***************************************************************************)
(* Bounds of the model.                                                    *)
(***************************************************************************)
MaxMeals == 1        \* meal documents ever created in one behaviour
MaxWater == 2        \* the + button is not pressed above this count
MaxInFlight == 1     \* writes of one kind awaiting the store at a time
MaxAiInFlight == 2   \* image reads and inference requests in flight at a time
MaxShown == 3        \* meals of today in the store when the totals are examined

(***************************************************************************)
(* Values.                                                                 *)
(***************************************************************************)
Null == [null |-> TRUE]              \* JavaScript null / a missing document
NaN == 0 - 999999                    \* parseFloat('') and what is computed from it

\* Text of a numeric form field: a sequence of decimal digits, '' is << >>.
Empty == << >>
Truthy(text) == Len(text) > 0        \* !height is true exactly for ''

RECURSIVE DigitsValue(_)
DigitsValue(text) ==
    IF Len(text) = 0 THEN 0
    ELSE 10 * DigitsValue(SubSeq(text, 1, Len(text) - 1)) + text[Len(text)]

parseFloat(text) == IF Len(text) = 0 THEN NaN ELSE DigitsValue(text)
parseInt(text) == IF Len(text) = 0 THEN NaN ELSE DigitsValue(text)

\* Math.round of the rational n/d (d > 0): floor(n/d + 1/2).
RoundDiv(n, d) == (2 * n + d) \div (2 * d)

Genders == {"female", "male"}
ActivityLevels == {"sedentary", "light", "moderate", "active", "veryActive"}
Goals == {"lose", "maintain", "gain"}

(***************************************************************************)
(* Target calculator (lines 27-54), on integers: calculateBMR returns the  *)
(* BMR times 1000, calculateTDEE that times 40 (1.2 = 48/40, 1.375 = 55/40,*)
(* 1.55 = 62/40, 1.725 = 69/40, 1.9 = 76/40) and adjustCaloriesForGoal the *)
(* rounded target, the goal factor being 17/20, 23/20 or 20/20.            *)
(***************************************************************************)
calculateBMR(weight, height, age, gender) ==
    IF NaN \in {weight, height, age} THEN NaN
    ELSE IF gender = "male"
         THEN 88362 + 13397 * weight + 4799 * height - 5677 * age
         ELSE 447593 + 9247 * weight + 3098 * height - 4330 * age

activityMultipliers(activityLevel) ==
    CASE activityLevel = "sedentary" -> 48
      [] activityLevel = "light" -> 55
      [] activityLevel = "moderate" -> 62
      [] activityLevel = "active" -> 69
      [] activityLevel = "veryActive" -> 76
      [] OTHER -> 48

calculateTDEE(bmr, activityLevel) ==
    IF bmr = NaN THEN NaN ELSE bmr * activityMultipliers(activityLevel)

GoalFactor(goal) ==
    CASE goal = "lose" -> 17
      [] goal = "gain" -> 23
      [] OTHER -> 20

\* The target cut off below the decimal point instead of rounded.
adjustCaloriesForGoalTruncated(tdee, goal) ==
    IF tdee = NaN THEN NaN
    ELSE LET q == tdee \div 800000
             r == tdee % 800000
         IN  q * GoalFactor(goal) + ((r * GoalFactor(goal)) \div 800000)

\* Math.round(adjustCaloriesForGoal(tdee, goal)), tdee in units of 1/40000 kcal.
adjustCaloriesForGoal(tdee, goal) ==
    IF tdee = NaN THEN NaN
    ELSE LET q == tdee \div 800000
             r == tdee % 800000
         IN  q * GoalFactor(goal) + RoundDiv(r * GoalFactor(goal), 800000)

getMacroTargets(calories) ==
    IF calories = NaN THEN [carbs |-> NaN, protein |-> NaN, fat |-> NaN]
    ELSE [carbs |-> RoundDiv(calories * 4, 40),
          protein |-> RoundDiv(calories * 3, 40),
          fat |-> RoundDiv(calories * 3, 90)]

\* {...a, ...b} and setDoc(ref, b, {merge: true}) on a document a.
Merge(a, b) ==
    IF a = Null THEN b
    ELSE [f \in (DOMAIN a) \cup (DOMAIN b) |-> IF f \in DOMAIN b THEN b[f] ELSE a[f]]

InputFields == {"height", "weight", "age", "gender", "activityLevel", "goal"}
DerivedFields == {"calorieTarget", "carbs", "protein", "fat"}

\* Lines 160-163 and 495-498: the derived fields of a form's input fields.
ComputeTargets(formData) ==
    LET bmr == calculateBMR(parseFloat(formData.weight), parseFloat(formData.height),
                            parseInt(formData.age), formData.gender)
        tdee == calculateTDEE(bmr, formData.activityLevel)
        calorieTarget == adjustCaloriesForGoal(tdee, formData.goal)
    IN  Merge([calorieTarget |-> calorieTarget], getMacroTargets(calorieTarget))

\* Lines 156 and 491 without the test of age.
IsIncompleteNoAge(formData) == ~Truthy(formData.height) \/ ~Truthy(formData.weight)

\* Lines 156 and 491: !height || !weight || !age.
IsIncomplete(formData) ==
    ~Truthy(formData.height) \/ ~Truthy(formData.weight) \/ ~Truthy(formData.age)

(***************************************************************************)
(* State.                                                                  *)
(***************************************************************************)
VARIABLES
    \* the document store, under artifacts/<app>/users/<uid>
    profileDoc,             \* profile/data: Null or the document
    mealDocs,               \* meals: a set of [id, createdAt, food]
    dailyStats,             \* daily_stats: a function date key -> document
    nextMealId,             \* the id addDoc gives the next meal
    today,                  \* the current calendar day, local time
    utcDay,                 \* the current calendar day, UTC
    \* App (lines 547-555)
    authUser,               \* the authentication provider: "none", "signingIn", "user", "failed"
    userId,                 \* TRUE once setUserId(user.uid) ran
    userProfile,
    todaysMeals,
    isLoading,
    isAddFoodModalOpen,
    editingMeal,
    mealToDelete,
    isDeleteMealModalOpen,
    currentPage,
    mealsWindow,            \* the day of the meals query, 0 before the listener exists
    mealsDirty,             \* the meals listener has a snapshot to deliver
    \* ProfileSetup (line 150) and SettingsPage (lines 485-486)
    setupLoading,
    settingsLoading,
    isDeleteModalOpen,
    \* AddFoodModal (lines 223-229)
    mode,
    aiText,                 \* TRUE when the text field is not empty
    aiImage,                \* TRUE when a file is selected
    modalLoading,           \* the modal's isLoading
    aiResult,
    \* WaterTracker (line 424)
    waterCount,
    waterDirty,             \* the water listener has a snapshot to deliver
    \* requests in flight
    profileRead,            \* getDoc of the auth effect: "none", "pending", "done", "failed"
    profileWrites,
    mealWrites,
    waterWrites,
    aiRequests,
    wipe,                   \* handleDataDelete: [pc, meals, stats]
    \* what the last step showed
    lastAlert,              \* the text of alert(), "" when the step alerted nothing
    lastRejection           \* the promise the step left rejected and unhandled, "" when none

storeVars == <<profileDoc, mealDocs, dailyStats, nextMealId, today, utcDay>>
appVars == <<authUser, userId, userProfile, todaysMeals, isLoading, isAddFoodModalOpen,
             editingMeal, mealToDelete, isDeleteMealModalOpen, currentPage, mealsWindow,
             mealsDirty>>
formVars == <<setupLoading, settingsLoading, isDeleteModalOpen>>
modalVars == <<mode, aiText, aiImage, modalLoading, aiResult>>
waterVars == <<waterCount, waterDirty>>
flightVars == <<profileRead, profileWrites, mealWrites, waterWrites, aiRequests, wipe>>
shownVars == <<lastAlert, lastRejection>>
vars == <<storeVars, appVars, formVars, modalVars, waterVars, flightVars, shownVars>>

(***************************************************************************)
(* Inputs the user and the services can give.                              *)
(***************************************************************************)
\* What the profile form can hold in its three number fields.
HeightTexts == {Empty, <<1, 7, 5>>}
WeightTexts == {Empty, <<7, 0>>}
AgeTexts == {Empty, <<3, 0>>}

FormActivityLevels == {"sedentary", "veryActive"}

FormInputs ==
    [height : HeightTexts, weight : WeightTexts, age : AgeTexts,
     gender : Genders, activityLevel : FormActivityLevels, goal : Goals]

\* A few forms, for the specifications where the profile is not the subject.
FewFormInputs ==
    {f \in FormInputs : f.gender = "male" /\ f.activityLevel = "sedentary"
                        /\ f.goal \in {"maintain", "lose"} /\ f.weight # Empty /\ f.age # Empty}

(***************************************************************************)
(* What App renders (lines 641-655) and which components are mounted.      *)
(***************************************************************************)
SetupShownOf(ld, up) == ~ld /\ up = Null
\* The main page rendered whenever the spinner is gone.
MainShownOfAnyProfile(ld, up) == ~ld
MainShownOf(ld, up) == ~ld /\ up # Null
HomeShownOf(ld, up, pg) == MainShownOf(ld, up) /\ pg = "home"
SettingsShownOf(ld, up, pg) == MainShownOf(ld, up) /\ pg = "settings"

SetupShown == SetupShownOf(isLoading, userProfile)
MainShown == MainShownOf(isLoading, userProfile)
HomeShown == HomeShownOf(isLoading, userProfile, currentPage)
SettingsShown == SettingsShownOf(isLoading, userProfile, currentPage)

\* A Modal covers the page (line 62): nothing under it can be clicked.
NoOverlay == ~isAddFoodModalOpen /\ ~isDeleteMealModalOpen /\ ~isDeleteModalOpen

Shows(alert, rejection) == lastAlert' = alert /\ lastRejection' = rejection
Quiet == Shows("", "")

\* A component that is mounted or unmounted starts from its useState values; the
\* setters of an unmounted instance do nothing, so its requests are marked.
SetupFollows(ld, up) ==
    setupLoading' = IF SetupShownOf(ld, up) = SetupShown THEN setupLoading ELSE FALSE

SettingsFollows(ld, up, pg) ==
    IF SettingsShownOf(ld, up, pg) = SettingsShown
    THEN UNCHANGED <<settingsLoading, isDeleteModalOpen>>
    ELSE settingsLoading' = FALSE /\ isDeleteModalOpen' = FALSE

ModalFresh ==
    /\ mode' = "main"
    /\ aiText' = FALSE
    /\ aiImage' = FALSE
    /\ modalLoading' = FALSE
    /\ aiResult' = Null

ModalFollows(ld, up) ==
    IF MainShownOf(ld, up) = MainShown THEN UNCHANGED modalVars ELSE ModalFresh

\* Lines 424-434: useState(0), and the listener of the effect delivers a first
\* snapshot after it is attached; the cleanup detaches it.
WaterFollows(ld, up, pg) ==
    IF HomeShownOf(ld, up, pg) = HomeShown THEN UNCHANGED waterVars
    ELSE waterCount' = 0 /\ waterDirty' = HomeShownOf(ld, up, pg)

Orphaned(requests) == {[r EXCEPT !.live = FALSE] : r \in requests}

ProfileWritesFollow(writes, ld, up, pg) ==
    {IF \/ w.kind = "create" /\ SetupShownOf(ld, up) # SetupShown
        \/ w.kind = "update" /\ SettingsShownOf(ld, up, pg) # SettingsShown
     THEN [w EXCEPT !.live = FALSE] ELSE w : w \in writes}

AiRequestsFollow(requests, ld, up) ==
    IF MainShownOf(ld, up) = MainShown THEN requests ELSE Orphaned(requests)

\* Everything that follows from App's next isLoading, userProfile and currentPage,
\* for a step that touches no component state itself.
ComponentsFollow(ld, up, pg) ==
    /\ SetupFollows(ld, up)
    /\ SettingsFollows(ld, up, pg)
    /\ ModalFollows(ld, up)
    /\ WaterFollows(ld, up, pg)
    /\ aiRequests' = AiRequestsFollow(aiRequests, ld, up)

(***************************************************************************)
(* Construction: nothing is signed in, the store holds what earlier        *)
(* sessions of this program left.                                          *)
(***************************************************************************)
OldForm ==
    [height |-> <<1, 7, 5>>, weight |-> <<7, 0>>, age |-> <<3, 0>>, gender |-> "male",
     activityLevel |-> "sedentary", goal |-> "maintain"]

\* Line 164: { ...formData, calorieTarget, ...macroTargets, createdAt: new Date() }.
NewProfileData(formData, day) ==
    Merge(Merge(formData, ComputeTargets(formData)), [createdAt |-> day])

\* Line 499 with the spreads in the other order: the form's old targets win.
UpdatedProfileDataStale(formData) == Merge(ComputeTargets(formData), formData)

\* Line 499: { ...formData, calorieTarget, ...macroTargets }.
UpdatedProfileData(formData) == Merge(formData, ComputeTargets(formData))

OldFood == [name |-> "pain", calories |-> 250, carbs |-> 50, protein |-> 8, fat |-> 2]

\* The store as earlier sessions left it, and the clock.
InitStore ==
    /\ today = 2
    /\ utcDay \in {today, today + 1}
    /\ profileDoc \in {Null, NewProfileData(OldForm, 1)}
    /\ mealDocs \in {{}, {[id |-> 0, createdAt |-> 1, food |-> OldFood]}}
    /\ dailyStats \in {<<>>, [d \in {1} |-> [waterCount |-> 1]]}
    /\ nextMealId = 1

\* The useState values (lines 547-555, 150, 485-486, 223-229, 424); nothing in flight.
InitSession ==
    /\ authUser = "none"
    /\ userId = FALSE
    /\ userProfile = Null
    /\ todaysMeals = {}
    /\ isLoading = TRUE
    /\ isAddFoodModalOpen = FALSE
    /\ editingMeal = Null
    /\ mealToDelete = Null
    /\ isDeleteMealModalOpen = FALSE
    /\ currentPage = "home"
    /\ mealsWindow = 0
    /\ mealsDirty = FALSE
    /\ setupLoading = FALSE
    /\ settingsLoading = FALSE
    /\ isDeleteModalOpen = FALSE
    /\ mode = "main"
    /\ aiText = FALSE
    /\ aiImage = FALSE
    /\ modalLoading = FALSE
    /\ aiResult = Null
    /\ waterCount = 0
    /\ waterDirty = FALSE
    /\ profileRead = "none"
    /\ profileWrites = {}
    /\ mealWrites = {}
    /\ waterWrites = {}
    /\ aiRequests = {}
    /\ wipe = [pc |-> "idle", meals |-> {}, stats |-> {}]
    /\ lastAlert = ""
    /\ lastRejection = ""

Init == InitStore /\ InitSession

(***************************************************************************)
(* The auth effect (lines 557-574) and the meals effect (lines 576-587).   *)
(***************************************************************************)
\* onAuthStateChanged(null): signInAnonymously.
AuthNoUser ==
    /\ authUser = "none"
    /\ authUser' = "signingIn"
    /\ Quiet
    /\ UNCHANGED <<storeVars, userId, userProfile, todaysMeals, isLoading,
                   isAddFoodModalOpen, editingMeal, mealToDelete, isDeleteMealModalOpen,
                   currentPage, mealsWindow, mealsDirty, formVars, modalVars, waterVars,
                   flightVars>>

\* signInAnonymously rejects: console.error only (line 569).
SignInFails ==
    /\ authUser = "signingIn"
    /\ authUser' = "failed"
    /\ Quiet
    /\ UNCHANGED <<storeVars, userId, userProfile, todaysMeals, isLoading,
                   isAddFoodModalOpen, editingMeal, mealToDelete, isDeleteMealModalOpen,
                   currentPage, mealsWindow, mealsDirty, formVars, modalVars, waterVars,
                   flightVars>>

\* onAuthStateChanged(user): setUserId, getDoc(profileRef) is awaited; the change
\* of userId runs the meals effect, which builds today's query and listens.
AuthUser ==
    /\ authUser \in {"none", "signingIn"}
    /\ authUser' = "user"
    /\ userId' = TRUE
    /\ profileRead' = "pending"
    /\ mealsWindow' = today
    /\ mealsDirty' = TRUE
    /\ Quiet
    /\ UNCHANGED <<storeVars, userProfile, todaysMeals, isLoading, isAddFoodModalOpen,
                   editingMeal, mealToDelete, isDeleteMealModalOpen, currentPage,
                   formVars, modalVars, waterVars, profileWrites, mealWrites,
                   waterWrites, aiRequests, wipe>>

\* getDoc resolves: setUserProfile when the document exists, setIsLoading(false).
ProfileReadOk ==
    /\ profileRead = "pending"
    /\ profileRead' = "done"
    /\ userProfile' = profileDoc
    /\ isLoading' = FALSE
    /\ ComponentsFollow(FALSE, profileDoc, currentPage)
    /\ profileWrites' = ProfileWritesFollow(profileWrites, FALSE, profileDoc, currentPage)
    /\ Quiet
    /\ UNCHANGED <<storeVars, authUser, userId, todaysMeals, isAddFoodModalOpen,
                   editingMeal, mealToDelete, isDeleteMealModalOpen, currentPage,
                   mealsWindow, mealsDirty, mealWrites, waterWrites, wipe>>

\* getDoc rejects inside the async callback: nothing catches it.
ProfileReadFails ==
    /\ profileRead = "pending"
    /\ profileRead' = "failed"
    /\ Shows("", "getDoc(profile)")
    /\ UNCHANGED <<storeVars, appVars, formVars, modalVars, waterVars, profileWrites,
                   mealWrites, waterWrites, aiRequests, wipe>>

\* The meals listener delivers the documents of its query (lines 582-585).
MealsSnapshot ==
    /\ mealsDirty
    /\ mealsDirty' = FALSE
    /\ todaysMeals' = {m \in mealDocs : m.createdAt = mealsWindow}
    /\ Quiet
    /\ UNCHANGED <<storeVars, authUser, userId, userProfile, isLoading,
                   isAddFoodModalOpen, editingMeal, mealToDelete, isDeleteMealModalOpen,
                   currentPage, mealsWindow, formVars, modalVars, waterVars, flightVars>>

(***************************************************************************)
(* ProfileSetup.handleSubmit (lines 153-177).                              *)
(***************************************************************************)
\* Lines 154-159: a field is empty.
SetupRejects(formData) ==
    /\ SetupShown /\ ~setupLoading
    /\ IsIncomplete(formData)
    /\ Shows("Veuillez remplir tous les champs.", "")
    /\ UNCHANGED <<storeVars, appVars, formVars, modalVars, waterVars, flightVars>>

\* Lines 154-169, up to await setDoc(profileRef, profileData).
SetupSubmits(formData) ==
    /\ SetupShown /\ ~setupLoading
    /\ ~IsIncomplete(formData)
    /\ Cardinality(profileWrites) < MaxInFlight
    /\ setupLoading' = TRUE
    /\ profileWrites' = profileWrites \cup
           {[kind |-> "create", data |-> NewProfileData(formData, today), live |-> TRUE]}
    /\ Quiet
    /\ UNCHANGED <<storeVars, appVars, settingsLoading, isDeleteModalOpen, modalVars,
                   waterVars, profileRead, mealWrites, waterWrites, aiRequests, wipe>>

ProfileSetupSubmit(formData) == SetupRejects(formData) \/ SetupSubmits(formData)

\* setDoc resolved: the document is replaced, onProfileCreated(profileData), and the
\* finally clause clears isLoading of the ProfileSetup that is being unmounted.
ProfileCreateOk(w) ==
    /\ w \in profileWrites /\ w.kind = "create"
    /\ profileDoc' = w.data
    /\ userProfile' = w.data
    /\ setupLoading' = FALSE
    /\ SettingsFollows(isLoading, w.data, currentPage)
    /\ ModalFollows(isLoading, w.data)
    /\ WaterFollows(isLoading, w.data, currentPage)
    /\ aiRequests' = AiRequestsFollow(aiRequests, isLoading, w.data)
    /\ profileWrites' =
           ProfileWritesFollow(profileWrites \ {w}, isLoading, w.data, currentPage)
    /\ Quiet
    /\ UNCHANGED <<mealDocs, dailyStats, nextMealId, today, utcDay, authUser, userId, todaysMeals,
                   isLoading, isAddFoodModalOpen, editingMeal, mealToDelete,
                   isDeleteMealModalOpen, currentPage, mealsWindow, mealsDirty,
                   profileRead, mealWrites, waterWrites, wipe>>

\* setDoc rejected: lines 171-175.
ProfileCreateFails(w) ==
    /\ w \in profileWrites /\ w.kind = "create"
    /\ profileWrites' = profileWrites \ {w}
    /\ setupLoading' = IF w.live THEN FALSE ELSE setupLoading
    /\ Shows("Une erreur est survenue.", "")
    /\ UNCHANGED <<storeVars, appVars, settingsLoading, isDeleteModalOpen, modalVars,
                   waterVars, profileRead, mealWrites, waterWrites, aiRequests, wipe>>

(***************************************************************************)
(* SettingsPage.handleSubmit (lines 488-503) and handleProfileUpdate       *)
(* (lines 613-618).  The form starts from userProfile (line 516), so       *)
(* formData is userProfile with the input fields as edited.                *)
(***************************************************************************)
SettingsRejects(inputs) ==
    /\ SettingsShown /\ NoOverlay /\ ~settingsLoading
    /\ IsIncomplete(Merge(userProfile, inputs))
    /\ Shows("Veuillez remplir tous les champs.", "")
    /\ UNCHANGED <<storeVars, appVars, formVars, modalVars, waterVars, flightVars>>

\* handleProfileUpdate up to its await: the write a settings submission issues.
ProfileUpdateWrite(profileData) ==
    [kind |-> "update", data |-> profileData, live |-> TRUE]

\* Lines 489-500 and 613-616, up to await setDoc(profileRef, data, {merge: true}).
SettingsSubmits(inputs) ==
    /\ SettingsShown /\ NoOverlay /\ ~settingsLoading
    /\ ~IsIncomplete(Merge(userProfile, inputs))
    /\ Cardinality(profileWrites) < MaxInFlight
    /\ settingsLoading' = TRUE
    /\ profileWrites' = profileWrites \cup
           {ProfileUpdateWrite(UpdatedProfileData(Merge(userProfile, inputs)))}
    /\ Quiet
    /\ UNCHANGED <<storeVars, appVars, setupLoading, isDeleteModalOpen, modalVars,
                   waterVars, profileRead, mealWrites, waterWrites, aiRequests, wipe>>

SettingsSubmit(inputs) == SettingsRejects(inputs) \/ SettingsSubmits(inputs)

\* setDoc resolved: the fields are merged into the document, setUserProfile (line
\* 617), then lines 501-502 of the SettingsPage that submitted.
ProfileUpdateOk(w) ==
    /\ w \in profileWrites /\ w.kind = "update"
    /\ profileDoc' = Merge(profileDoc, w.data)
    /\ userProfile' = w.data
    /\ SetupFollows(isLoading, w.data)
    /\ IF SettingsShownOf(isLoading, w.data, currentPage) = SettingsShown
       THEN /\ settingsLoading' = IF w.live THEN FALSE ELSE settingsLoading
            /\ UNCHANGED isDeleteModalOpen
       ELSE settingsLoading' = FALSE /\ isDeleteModalOpen' = FALSE
    /\ ModalFollows(isLoading, w.data)
    /\ WaterFollows(isLoading, w.data, currentPage)
    /\ aiRequests' = AiRequestsFollow(aiRequests, isLoading, w.data)
    /\ profileWrites' =
           ProfileWritesFollow(profileWrites \ {w}, isLoading, w.data, currentPage)
    /\ Shows("Profil mis à jour !", "")
    /\ UNCHANGED <<mealDocs, dailyStats, nextMealId, today, utcDay, authUser, userId, todaysMeals,
                   isLoading, isAddFoodModalOpen, editingMeal, mealToDelete,
                   isDeleteMealModalOpen, currentPage, mealsWindow, mealsDirty,
                   profileRead, mealWrites, waterWrites, wipe>>

\* handleProfileUpdate with setUserProfile before the await.
ProfileUpdateFailsAdvanced(w) ==
    /\ w \in profileWrites /\ w.kind = "update"
    /\ profileWrites' = profileWrites \ {w}
    /\ userProfile' = w.data
    /\ Shows("", "handleSubmit")
    /\ UNCHANGED <<storeVars, authUser, userId, todaysMeals, isLoading,
                   isAddFoodModalOpen, editingMeal, mealToDelete, isDeleteMealModalOpen,
                   currentPage, mealsWindow, mealsDirty, formVars, modalVars, waterVars,
                   profileRead, mealWrites, waterWrites, aiRequests, wipe>>

\* setDoc rejected: handleProfileUpdate and handleSubmit have no catch, so line 501
\* never runs and the rejection is unhandled.
ProfileUpdateFails(w) ==
    /\ w \in profileWrites /\ w.kind = "update"
    /\ profileWrites' = profileWrites \ {w}
    /\ Shows("", "handleSubmit")
    /\ UNCHANGED <<storeVars, appVars, formVars, modalVars, waterVars, profileRead,
                   mealWrites, waterWrites, aiRequests, wipe>>

\* The bottom bar (lines 659 and 665).
SetCurrentPage(page) ==
    /\ MainShown /\ NoOverlay
    /\ page # currentPage
    /\ currentPage' = page
    /\ ComponentsFollow(isLoading, userProfile, page)
    /\ profileWrites' = ProfileWritesFollow(profileWrites, isLoading, userProfile, page)
    /\ Quiet
    /\ UNCHANGED <<storeVars, authUser, userId, userProfile, todaysMeals, isLoading,
                   isAddFoodModalOpen, editingMeal, mealToDelete, isDeleteMealModalOpen,
                   mealsWindow, mealsDirty, profileRead, mealWrites, waterWrites, wipe>>

(***************************************************************************)
(* Meals: handleFoodAction (589-598), the delete dialog (600-611), and the *)
(* store's side of addDoc, updateDoc and deleteDoc.                        *)
(***************************************************************************)
\* The number a request in flight is told apart by.
FreshRid(requests) ==
    CHOOSE i \in 1..(Cardinality(requests) + 1) : \A r \in requests : r.rid # i

Get(food, field, default) == IF field \in DOMAIN food THEN food[field] ELSE default

PendingAdds == {w \in mealWrites : w.kind = "add"}

\* handleFoodAction(foodData) up to its await, with the editingMeal of the render.
FoodActionWrite(foodData, origin) ==
    IF editingMeal # Null
    THEN [rid |-> FreshRid(mealWrites), kind |-> "update", id |-> editingMeal.id,
          food |-> foodData, createdAt |-> 0, origin |-> origin]
    ELSE [rid |-> FreshRid(mealWrites), kind |-> "add", id |-> 0,
          food |-> foodData, createdAt |-> today, origin |-> origin]

CanIssueFoodAction ==
    /\ userId
    /\ Cardinality(mealWrites) < MaxInFlight
    /\ editingMeal = Null => nextMealId + Cardinality(PendingAdds) <= MaxMeals

MatchingMeals(docs) == {m \in docs : m.createdAt = mealsWindow}

\* The store tells the listener when the documents of its query change.
MealsNotified(docs) ==
    mealsDirty \/ (mealsWindow # 0 /\ MatchingMeals(docs) # MatchingMeals(mealDocs))

MealAdded(w) == mealDocs \cup {[id |-> nextMealId, createdAt |-> w.createdAt, food |-> w.food]}

MealUpdated(w) ==
    {IF m.id = w.id THEN [m EXCEPT !.food = Merge(m.food, w.food)] ELSE m : m \in mealDocs}

MealDeleted(w) == {m \in mealDocs : m.id # w.id}

\* addDoc or updateDoc resolved; updateDoc only resolves for a document that exists.
FoodWriteOk(w) ==
    /\ w \in mealWrites /\ w.kind \in {"add", "update"}
    /\ w.kind = "update" => \E m \in mealDocs : m.id = w.id
    /\ mealDocs' = IF w.kind = "add" THEN MealAdded(w) ELSE MealUpdated(w)
    /\ nextMealId' = IF w.kind = "add" THEN nextMealId + 1 ELSE nextMealId
    /\ mealsDirty' = MealsNotified(mealDocs')
    /\ mealWrites' = mealWrites \ {w}
    /\ Quiet
    /\ UNCHANGED <<profileDoc, dailyStats, today, utcDay, authUser, userId, userProfile,
                   todaysMeals, isLoading, isAddFoodModalOpen, editingMeal, mealToDelete,
                   isDeleteMealModalOpen, currentPage, mealsWindow, formVars, modalVars,
                   waterVars, profileRead, profileWrites, waterWrites, aiRequests, wipe>>

\* The write rejected: handleFoodAction has no catch and its callers do not await it.
FoodWriteFails(w) ==
    /\ w \in mealWrites /\ w.kind \in {"add", "update"}
    /\ mealWrites' = mealWrites \ {w}
    /\ Shows("", "handleFoodAction")
    /\ UNCHANGED <<storeVars, appVars, formVars, modalVars, waterVars, profileRead,
                   profileWrites, waterWrites, aiRequests, wipe>>

\* Line 418 -> handleDeleteMealRequest.
HandleDeleteMealRequest(meal) ==
    /\ HomeShown /\ NoOverlay
    /\ meal \in todaysMeals
    /\ mealToDelete' = meal
    /\ isDeleteMealModalOpen' = TRUE
    /\ Quiet
    /\ UNCHANGED <<storeVars, authUser, userId, userProfile, todaysMeals, isLoading,
                   isAddFoodModalOpen, editingMeal, currentPage, mealsWindow, mealsDirty,
                   formVars, modalVars, waterVars, flightVars>>

\* Annuler or X of the confirmation (line 653).
CancelDeleteMeal ==
    /\ MainShown /\ isDeleteMealModalOpen
    /\ isDeleteMealModalOpen' = FALSE
    /\ Quiet
    /\ UNCHANGED <<storeVars, authUser, userId, userProfile, todaysMeals, isLoading,
                   isAddFoodModalOpen, editingMeal, mealToDelete, currentPage, mealsWindow,
                   mealsDirty, formVars, modalVars, waterVars, flightVars>>

\* confirmDeleteMeal up to await deleteDoc(mealRef).
ConfirmDeleteMeal ==
    /\ MainShown /\ isDeleteMealModalOpen
    /\ userId /\ mealToDelete # Null
    /\ Cardinality(mealWrites) < MaxInFlight
    /\ mealWrites' = mealWrites \cup
           {[rid |-> FreshRid(mealWrites), kind |-> "delete", id |-> mealToDelete.id,
             food |-> Null, createdAt |-> 0, origin |-> "manual"]}
    /\ Quiet
    /\ UNCHANGED <<storeVars, appVars, formVars, modalVars, waterVars, profileRead,
                   profileWrites, waterWrites, aiRequests, wipe>>

\* deleteDoc resolved: lines 609-610.
MealDeleteOk(w) ==
    /\ w \in mealWrites /\ w.kind = "delete"
    /\ mealDocs' = MealDeleted(w)
    /\ mealsDirty' = MealsNotified(mealDocs')
    /\ mealWrites' = mealWrites \ {w}
    /\ isDeleteMealModalOpen' = FALSE
    /\ mealToDelete' = Null
    /\ Quiet
    /\ UNCHANGED <<profileDoc, dailyStats, nextMealId, today, utcDay, authUser, userId, userProfile,
                   todaysMeals, isLoading, isAddFoodModalOpen, editingMeal, currentPage,
                   mealsWindow, formVars, modalVars, waterVars, profileRead, profileWrites,
                   waterWrites, aiRequests, wipe>>

MealDeleteFails(w) ==
    /\ w \in mealWrites /\ w.kind = "delete"
    /\ mealWrites' = mealWrites \ {w}
    /\ Shows("", "confirmDeleteMeal")
    /\ UNCHANGED <<storeVars, appVars, formVars, modalVars, waterVars, profileRead,
                   profileWrites, waterWrites, aiRequests, wipe>>

(***************************************************************************)
(* AddFoodModal (lines 222-408).                                           *)
(***************************************************************************)
ModalShown == MainShown /\ isAddFoodModalOpen
\* renderContent: the spinner, then the result, then the view of the mode.
ModeViewShown == ModalShown /\ ~modalLoading /\ aiResult = Null
ResultShown == ModalShown /\ ~modalLoading /\ aiResult # Null

\* What the manual form can hold: name and calories are required fields.
ManualInputs ==
    {[name |-> "riz", calories |-> <<3, 0, 0>>, carbs |-> <<6, 0>>, protein |-> <<6>>,
      fat |-> Empty],
     [name |-> "oeuf", calories |-> <<9, 0>>, carbs |-> Empty, protein |-> <<7>>,
      fat |-> <<6>>]}

\* Line 251: parseFloat(manualData.calories || 0).
NumberOrZero(text) == IF Truthy(text) THEN parseFloat(text) ELSE 0

ManualFoodData(manualData) ==
    [name |-> manualData.name,
     calories |-> NumberOrZero(manualData.calories),
     carbs |-> NumberOrZero(manualData.carbs),
     protein |-> NumberOrZero(manualData.protein),
     fat |-> NumberOrZero(manualData.fat)]

\* Line 638.
OpenAddModal ==
    /\ MainShown /\ NoOverlay
    /\ editingMeal' = Null
    /\ isAddFoodModalOpen' = TRUE
    /\ ModalFresh                      \* the effect of line 232 runs resetState
    /\ Quiet
    /\ UNCHANGED <<storeVars, authUser, userId, userProfile, todaysMeals, isLoading,
                   mealToDelete, isDeleteMealModalOpen, currentPage, mealsWindow,
                   mealsDirty, formVars, waterVars, flightVars>>

\* Line 637, then the effect of line 232 in edit mode: only manualData and mode.
HandleEditMeal(meal) ==
    /\ HomeShown /\ NoOverlay
    /\ meal \in todaysMeals
    /\ editingMeal' = meal
    /\ isAddFoodModalOpen' = TRUE
    /\ mode' = "manual"
    /\ Quiet
    /\ UNCHANGED <<storeVars, authUser, userId, userProfile, todaysMeals, isLoading,
                   mealToDelete, isDeleteMealModalOpen, currentPage, mealsWindow,
                   mealsDirty, formVars, aiText, aiImage, modalLoading, aiResult,
                   waterVars, flightVars>>

\* The requests the dialog leaves behind when it closes.
Abandoned(requests) == {[r EXCEPT !.abandoned = TRUE] : r \in requests}

\* handleClose (line 247): resetState, closeAddModal (line 639).
HandleCloseEffects ==
    /\ ModalFresh
    /\ isAddFoodModalOpen' = FALSE
    /\ editingMeal' = Null

HandleClose ==
    /\ ModalShown
    /\ HandleCloseEffects
    /\ aiRequests' = Abandoned(aiRequests)
    /\ Quiet
    /\ UNCHANGED <<storeVars, authUser, userId, userProfile, todaysMeals, isLoading,
                   mealToDelete, isDeleteMealModalOpen, currentPage, mealsWindow,
                   mealsDirty, formVars, waterVars, profileRead, profileWrites,
                   mealWrites, waterWrites, wipe>>

\* The buttons that only change the view (lines 360, 377, 384, 393, 400, 402).
SetMode(m) ==
    /\ ModeViewShown
    /\ \/ mode = "main" /\ m \in {"ai-text", "manual"}
       \/ mode = "manual" /\ editingMeal = Null /\ m = "main"
       \/ mode = "ai-text" /\ m = "main"
    /\ mode' = m
    /\ Quiet
    /\ UNCHANGED <<storeVars, appVars, formVars, aiText, aiImage, modalLoading, aiResult,
                   waterVars, flightVars>>

\* Lines 382 and 391: the text field.
SetAiText(filled) ==
    /\ ModeViewShown /\ mode \in {"ai-text", "ai-image-confirm"}
    /\ aiText # filled
    /\ aiText' = filled
    /\ Quiet
    /\ UNCHANGED <<storeVars, appVars, formVars, mode, aiImage, modalLoading, aiResult,
                   waterVars, flightVars>>

\* handleImageChange (lines 256-265).
HandleImageChange ==
    /\ ModeViewShown /\ mode = "main"
    /\ aiImage' = TRUE
    /\ mode' = "ai-image-confirm"
    /\ Quiet
    /\ UNCHANGED <<storeVars, appVars, formVars, aiText, modalLoading, aiResult,
                   waterVars, flightVars>>

\* Annuler of the image view (line 393).
CancelImage ==
    /\ ModeViewShown /\ mode = "ai-image-confirm"
    /\ mode' = "main" /\ aiImage' = FALSE /\ aiText' = FALSE
    /\ Quiet
    /\ UNCHANGED <<storeVars, appVars, formVars, modalLoading, aiResult, waterVars,
                   flightVars>>

\* Retour of the result view (line 360).
DismissAiResult ==
    /\ ResultShown
    /\ aiResult' = Null
    /\ Quiet
    /\ UNCHANGED <<storeVars, appVars, formVars, mode, aiText, aiImage, modalLoading,
                   waterVars, flightVars>>

\* handleManualSubmit (lines 249-254): onFoodAction(foodData), handleClose.
HandleManualSubmit(manualData) ==
    /\ ModeViewShown /\ mode = "manual"
    /\ CanIssueFoodAction
    /\ mealWrites' = mealWrites \cup {FoodActionWrite(ManualFoodData(manualData), "manual")}
    /\ HandleCloseEffects
    /\ aiRequests' = Abandoned(aiRequests)
    /\ Quiet
    /\ UNCHANGED <<storeVars, authUser, userId, userProfile, todaysMeals, isLoading,
                   mealToDelete, isDeleteMealModalOpen, currentPage, mealsWindow,
                   mealsDirty, formVars, waterVars, profileRead, profileWrites,
                   waterWrites, wipe>>

\* analyzeWithAI (lines 267-296): which request the branches of lines 275-292 start.
AnalyzeRequest ==
    IF mode = "ai-text" \/ (mode = "ai-image-confirm" /\ aiText)
    THEN [rid |-> FreshRid(aiRequests), stage |-> "fetch", parts |-> "text",
          live |-> TRUE, abandoned |-> FALSE]
    ELSE [rid |-> FreshRid(aiRequests), stage |-> "read", parts |-> "text+image",
          live |-> TRUE, abandoned |-> FALSE]

AnalyzeWithAI ==
    /\ ModeViewShown /\ mode \in {"ai-text", "ai-image-confirm"}
    /\ Cardinality(aiRequests) < MaxAiInFlight
    /\ aiResult' = Null
    /\ IF mode = "ai-text" \/ aiText \/ aiImage
       THEN modalLoading' = TRUE /\ aiRequests' = aiRequests \cup {AnalyzeRequest}
       ELSE modalLoading' = FALSE /\ UNCHANGED aiRequests
    /\ Quiet
    /\ UNCHANGED <<storeVars, appVars, formVars, mode, aiText, aiImage, waterVars,
                   profileRead, profileWrites, mealWrites, waterWrites, wipe>>

\* reader.onload (lines 281-286): the request goes out with the image.
ImageReadOk(r) ==
    /\ r \in aiRequests /\ r.stage = "read"
    /\ aiRequests' = (aiRequests \ {r}) \cup {[r EXCEPT !.stage = "fetch"]}
    /\ Quiet
    /\ UNCHANGED <<storeVars, appVars, formVars, modalVars, waterVars, profileRead,
                   profileWrites, mealWrites, waterWrites, wipe>>

\* reader.onerror (line 287).
ImageReadFails(r) ==
    /\ r \in aiRequests /\ r.stage = "read"
    /\ aiRequests' = aiRequests \ {r}
    /\ modalLoading' = IF r.live THEN FALSE ELSE modalLoading
    /\ Shows("Erreur de lecture de l'image.", "")
    /\ UNCHANGED <<storeVars, appVars, formVars, mode, aiText, aiImage, aiResult,
                   waterVars, profileRead, profileWrites, mealWrites, waterWrites, wipe>>

\* What the inference endpoint can answer.
FullEstimate == [name |-> "salade", calories |-> 120, carbs |-> 10, protein |-> 3, fat |-> 7]
NameOnly == [name |-> "salade"]
AiAnswers ==
    {[kind |-> "network", value |-> Null],      \* fetch rejects
     [kind |-> "http", value |-> Null],         \* !response.ok
     [kind |-> "structure", value |-> Null],    \* no candidates[0].content.parts[0]
     [kind |-> "syntax", value |-> Null],       \* the text is not JSON
     [kind |-> "json", value |-> Null],         \* the text is the JSON null
     [kind |-> "json", value |-> NameOnly],
     [kind |-> "json", value |-> FullEstimate]}

\* Lines 326-337: whether the try block reaches setAiResult(JSON.parse(jsonText)).
AnswerParses(answer) == answer.kind = "json"

\* sendAIRequest hands the parsed result to onFoodAction itself.
WritesAfterAnswerCommitted(answer) ==
    IF AnswerParses(answer) /\ answer.value # Null
    THEN mealWrites \cup {FoodActionWrite(answer.value, "ai")}
    ELSE mealWrites

\* Lines 330-337: sendAIRequest only calls setAiResult; it issues no write.
WritesAfterAnswer(answer) == mealWrites

\* sendAIRequest resumes (lines 326-345).
AiAnswer(r, answer) ==
    /\ r \in aiRequests /\ r.stage = "fetch"
    /\ aiRequests' = aiRequests \ {r}
    /\ mealWrites' = WritesAfterAnswer(answer)
    /\ aiResult' = IF ~r.live THEN aiResult
                   ELSE IF AnswerParses(answer) THEN answer.value ELSE Null
    /\ modalLoading' = IF r.live THEN FALSE ELSE modalLoading
    /\ IF AnswerParses(answer) THEN Quiet
       ELSE Shows("L'IA n'a pas pu analyser votre plat. Essayez une description plus détaillée.", "")
    /\ UNCHANGED <<storeVars, appVars, formVars, mode, aiText, aiImage, waterVars,
                   profileRead, profileWrites, waterWrites, wipe>>

\* handleAiResultConfirm (line 348): onFoodAction(aiResult), handleClose.
HandleAiResultConfirm ==
    /\ ResultShown
    /\ CanIssueFoodAction
    /\ mealWrites' = mealWrites \cup {FoodActionWrite(aiResult, "ai")}
    /\ HandleCloseEffects
    /\ aiRequests' = Abandoned(aiRequests)
    /\ Quiet
    /\ UNCHANGED <<storeVars, authUser, userId, userProfile, todaysMeals, isLoading,
                   mealToDelete, isDeleteMealModalOpen, currentPage, mealsWindow,
                   mealsDirty, formVars, waterVars, profileRead, profileWrites,
                   waterWrites, wipe>>

(***************************************************************************)
(* WaterTracker (lines 423-452).                                           *)
(***************************************************************************)
\* Line 25: new Date().toISOString().split('T')[0], the UTC date.
getTodayDateString == utcDay

\* Line 437 without Math.max.
ClampCountNoFloor(newCount) == newCount

\* Line 437.
ClampCount(newCount) == IF newCount > 0 THEN newCount ELSE 0

\* Line 430: doc.exists() ? doc.data().waterCount || 0 : 0.
StoredWaterCount(key) ==
    IF key \in DOMAIN dailyStats THEN Get(dailyStats[key], "waterCount", 0) ELSE 0

\* updateWaterCount (lines 436-440) up to await setDoc.
UpdateWaterCount(newCount) ==
    /\ HomeShown /\ NoOverlay
    /\ newCount <= MaxWater
    /\ Cardinality(waterWrites) < MaxInFlight
    /\ waterCount' = ClampCount(newCount)
    /\ waterWrites' = waterWrites \cup
           {[rid |-> FreshRid(waterWrites), key |-> getTodayDateString,
             count |-> ClampCount(newCount), requested |-> newCount]}
    /\ Quiet
    /\ UNCHANGED <<storeVars, appVars, formVars, modalVars, waterDirty, profileRead,
                   profileWrites, mealWrites, aiRequests, wipe>>

\* Lines 446 and 448.
WaterMinus == UpdateWaterCount(waterCount - 1)
WaterPlus == UpdateWaterCount(waterCount + 1)

WaterMerged(w) ==
    [k \in (DOMAIN dailyStats) \cup {w.key} |->
        IF k = w.key
        THEN Merge(IF k \in DOMAIN dailyStats THEN dailyStats[k] ELSE Null,
                   [waterCount |-> w.count])
        ELSE dailyStats[k]]

\* setDoc(waterDocRef, {waterCount}, {merge: true}) resolved.
WaterWriteOk(w) ==
    /\ w \in waterWrites
    /\ waterWrites' = waterWrites \ {w}
    /\ dailyStats' = WaterMerged(w)
    /\ waterDirty' = (waterDirty \/ (HomeShown /\ w.key = getTodayDateString
                                     /\ dailyStats' # dailyStats))
    /\ Quiet
    /\ UNCHANGED <<profileDoc, mealDocs, nextMealId, today, utcDay, appVars, formVars,
                   modalVars, waterCount, profileRead, profileWrites, mealWrites,
                   aiRequests, wipe>>

\* setDoc rejected: updateWaterCount has no catch and line 438 is not undone.
WaterWriteFails(w) ==
    /\ w \in waterWrites
    /\ waterWrites' = waterWrites \ {w}
    /\ Shows("", "updateWaterCount")
    /\ UNCHANGED <<storeVars, appVars, formVars, modalVars, waterVars, profileRead,
                   profileWrites, mealWrites, aiRequests, wipe>>

\* The listener of lines 429-432.
WaterSnapshot ==
    /\ waterDirty
    /\ waterDirty' = FALSE
    /\ waterCount' = StoredWaterCount(getTodayDateString)
    /\ Quiet
    /\ UNCHANGED <<storeVars, appVars, formVars, modalVars, flightVars>>

(***************************************************************************)
(* The data wipe: SettingsPage (505-508, 526, 532-540), handleDataDelete   *)
(* (620-635).                                                              *)
(***************************************************************************)
OpenDeleteData ==
    /\ SettingsShown /\ NoOverlay
    /\ isDeleteModalOpen' = TRUE
    /\ Quiet
    /\ UNCHANGED <<storeVars, appVars, setupLoading, settingsLoading, modalVars,
                   waterVars, flightVars>>

CancelDeleteData ==
    /\ SettingsShown /\ isDeleteModalOpen
    /\ isDeleteModalOpen' = FALSE
    /\ Quiet
    /\ UNCHANGED <<storeVars, appVars, setupLoading, settingsLoading, modalVars,
                   waterVars, flightVars>>

WipeRunning == wipe.pc \in {"readMeals", "readStats", "commit"}

\* handleDeleteConfirm: onDataDelete() is not awaited; handleDataDelete runs to
\* await getDocs(mealsRef) (line 628).
HandleDeleteConfirm ==
    /\ SettingsShown /\ isDeleteModalOpen
    /\ userId /\ ~WipeRunning
    /\ wipe' = [pc |-> "readMeals", meals |-> {}, stats |-> {}]
    /\ isDeleteModalOpen' = FALSE
    /\ Quiet
    /\ UNCHANGED <<storeVars, appVars, setupLoading, settingsLoading, modalVars,
                   waterVars, profileRead, profileWrites, mealWrites, waterWrites,
                   aiRequests>>

\* Lines 628-629: the meals the batch will delete are those read now.
MealsToDelete == {m.id : m \in mealDocs}

WipeReadMeals ==
    /\ wipe.pc = "readMeals"
    /\ wipe' = [wipe EXCEPT !.pc = "readStats", !.meals = MealsToDelete]
    /\ Quiet
    /\ UNCHANGED <<storeVars, appVars, formVars, modalVars, waterVars, profileRead,
                   profileWrites, mealWrites, waterWrites, aiRequests>>

\* Lines 630-631.
WipeReadStats ==
    /\ wipe.pc = "readStats"
    /\ wipe' = [wipe EXCEPT !.pc = "commit", !.stats = DOMAIN dailyStats]
    /\ Quiet
    /\ UNCHANGED <<storeVars, appVars, formVars, modalVars, waterVars, profileRead,
                   profileWrites, mealWrites, waterWrites, aiRequests>>

\* batch.commit() resolved, then setUserProfile(null) (lines 633-634).
WipeCommit ==
    /\ wipe.pc = "commit"
    /\ wipe' = [wipe EXCEPT !.pc = "done"]
    /\ profileDoc' = Null
    /\ mealDocs' = {m \in mealDocs : m.id \notin wipe.meals}
    /\ dailyStats' = [k \in (DOMAIN dailyStats) \ wipe.stats |-> dailyStats[k]]
    /\ mealsDirty' = MealsNotified(mealDocs')
    /\ userProfile' = Null
    /\ ComponentsFollow(isLoading, Null, currentPage)
    /\ profileWrites' = ProfileWritesFollow(profileWrites, isLoading, Null, currentPage)
    /\ Quiet
    /\ UNCHANGED <<nextMealId, today, utcDay, authUser, userId, todaysMeals, isLoading,
                   isAddFoodModalOpen, editingMeal, mealToDelete, isDeleteMealModalOpen,
                   currentPage, mealsWindow, profileRead, mealWrites, waterWrites>>

\* getDocs or batch.commit rejected: handleDataDelete has no catch and
\* handleDeleteConfirm neither awaits nor catches it.
WipeFails ==
    /\ WipeRunning
    /\ wipe' = [wipe EXCEPT !.pc = "failed"]
    /\ Shows("", "handleDataDelete")
    /\ UNCHANGED <<storeVars, appVars, formVars, modalVars, waterVars, profileRead,
                   profileWrites, mealWrites, waterWrites, aiRequests>>

(***************************************************************************)
(* HomePage.consumedTotals (lines 455-459) on JavaScript numbers.          *)
(***************************************************************************)
\* A number of a stored meal is an IEEE 754 binary64 value, here m * 2^e with m the
\* significand as a sequence of bits, most significant first, that starts and ends
\* with 1 (<< >> for zero).  Only finite values >= 0 occur in a meal.
Precision == 53

Zero == [m |-> << >>, e |-> 0]

\* The bits of an integer 0 <= n < 2^30.
NatBits(n) == [i \in 1..30 |-> (n \div 2^(30 - i)) % 2]

Zeros(n) == [i \in 1..n |-> 0]

\* The bits without their leading and trailing zeros, the exponent adjusted.
Normal(bits, e) ==
    IF \A i \in 1..Len(bits) : bits[i] = 0 THEN Zero
    ELSE LET ones == {i \in 1..Len(bits) : bits[i] = 1}
             lo == CHOOSE i \in ones : \A j \in ones : i <= j
             hi == CHOOSE i \in ones : \A j \in ones : i >= j
         IN  [m |-> SubSeq(bits, lo, hi), e |-> e + (Len(bits) - hi)]

\* The integer n as a number.
FromNat(n) == Normal(NatBits(n), 0)

\* The carry into bit position i of A + B + c, for A and B of the same length: a
\* position below i produces one that every position between passes on.
CarryInto(A, B, i, c) ==
    \/ \E j \in (i + 1)..Len(A) :
          A[j] + B[j] = 2 /\ \A k \in (i + 1)..(j - 1) : A[k] + B[k] >= 1
    \/ c = 1 /\ \A k \in (i + 1)..Len(A) : A[k] + B[k] >= 1

\* A + B + c, one bit longer than A and B.
AddBits(A, B, c) ==
    [i \in 1..(Len(A) + 1) |->
        IF i = 1 THEN (IF CarryInto(A, B, 0, c) THEN 1 ELSE 0)
        ELSE (A[i - 1] + B[i - 1] + (IF CarryInto(A, B, i - 1, c) THEN 1 ELSE 0)) % 2]

PadLeft(bits, n) == Zeros(n - Len(bits)) \o bits

\* Round to nearest, ties to even, on a significand of more than 53 bits.
RoundToDouble(x) ==
    IF Len(x.m) <= Precision THEN x
    ELSE LET keep == SubSeq(x.m, 1, Precision)
             rest == SubSeq(x.m, Precision + 1, Len(x.m))
             up == rest[1] = 1 /\ (Len(rest) > 1 \/ keep[Precision] = 1)
         IN  Normal(AddBits(keep, Zeros(Precision), IF up THEN 1 ELSE 0),
                    x.e + Len(rest))

\* x + y of two numbers: the exact sum, rounded.
JsAdd(x, y) ==
    IF x = Zero THEN y
    ELSE IF y = Zero THEN x
    ELSE LET e == IF x.e < y.e THEN x.e ELSE y.e
             A == x.m \o Zeros(x.e - e)
             B == y.m \o Zeros(y.e - e)
             n == IF Len(A) > Len(B) THEN Len(A) ELSE Len(B)
         IN  RoundToDouble(Normal(AddBits(PadLeft(A, n), PadLeft(B, n), 0), e))

\* The number with the significand given by hexadecimal digits, times 2^e.
Double(hexDigits, e) ==
    Normal([i \in 1..(4 * Len(hexDigits)) |->
               (hexDigits[((i - 1) \div 4) + 1] \div 2^(3 - ((i - 1) % 4))) % 2], e)

\* 0.1, 0.2 and 0.3 as JSON.parse gives them.
Tenth == Double(<<12, 12, 12, 12, 12, 12, 12, 12, 12, 12, 12, 12, 13>>, 0 - 55)
Fifth == Double(<<12, 12, 12, 12, 12, 12, 12, 12, 12, 12, 12, 12, 13>>, 0 - 54)
ThreeTenths == Double(<<1, 3, 3, 3, 3, 3, 3, 3, 3, 3, 3, 3, 3, 3>>, 0 - 54)

NumericFields == {"calories", "carbs", "protein", "fat"}

\* meal.calories || 0 (lines 456-457): a missing field, like 0, counts as 0.
FieldOrZero(meal, field) == IF field \in DOMAIN meal THEN meal[field] ELSE Zero

\* The reducer without the line for fat.
AccumulateNoFat(acc, meal) ==
    [field \in NumericFields |->
        IF field = "fat" THEN acc[field] ELSE JsAdd(acc[field], FieldOrZero(meal, field))]

\* The reducer of lines 455-458: acc.calories += meal.calories || 0, and so on.
Accumulate(acc, meal) ==
    [field \in NumericFields |-> JsAdd(acc[field], FieldOrZero(meal, field))]

\* todaysMeals.reduce(..., { calories: 0, carbs: 0, protein: 0, fat: 0 }), on the
\* list in its order.
RECURSIVE consumedTotals(_)
consumedTotals(meals) ==
    IF meals = << >> THEN [field \in NumericFields |-> Zero]
    ELSE Accumulate(consumedTotals(SubSeq(meals, 1, Len(meals) - 1)), meals[Len(meals)])

\* The orders a snapshot can list the meals of a set in.
Orderings(S) ==
    {s \in [1..Cardinality(S) -> S] : \A i, j \in DOMAIN s : i # j => s[i] # s[j]}

\* The meal objects of line 583 that HomePage can be given, in each order.
DisplayedLists == {[i \in DOMAIN s |-> s[i].food] : s \in Orderings(todaysMeals)}

\* Meals of today that the store can hold: typed in by hand, or estimates of the
\* inference service, which may lack fields and may carry fractions.
TotalsMeals ==
    {[id |-> 1, createdAt |-> 2,
      food |-> [name |-> "pain", calories |-> FromNat(250), carbs |-> FromNat(50),
                protein |-> FromNat(8), fat |-> FromNat(2)]],
     [id |-> 2, createdAt |-> 2,
      food |-> [name |-> "oeuf", calories |-> FromNat(90), carbs |-> FromNat(0),
                protein |-> FromNat(7), fat |-> FromNat(6)]],
     [id |-> 3, createdAt |-> 2, food |-> [name |-> "salade"]],
     [id |-> 4, createdAt |-> 2,
      food |-> [name |-> "the", calories |-> FromNat(2), carbs |-> FromNat(0),
                protein |-> FromNat(0), fat |-> Tenth]],
     [id |-> 5, createdAt |-> 2,
      food |-> [name |-> "pomme", calories |-> FromNat(95), carbs |-> FromNat(25),
                protein |-> FromNat(0), fat |-> Fifth]],
     [id |-> 6, createdAt |-> 2,
      food |-> [name |-> "banane", calories |-> FromNat(105), carbs |-> FromNat(27),
                protein |-> FromNat(1), fat |-> ThreeTenths]]}

(***************************************************************************)
(* The clock read by new Date() (lines 25, 164, 578, 596).                 *)
(***************************************************************************)
\* Local midnight passes in a session west of UTC, where the UTC date is already
\* the next day in the evening: the local day catches up with the UTC date.
MidnightPasses ==
    /\ utcDay = today + 1
    /\ today' = today + 1
    /\ Quiet
    /\ UNCHANGED <<profileDoc, mealDocs, dailyStats, nextMealId, utcDay, appVars,
                   formVars, modalVars, waterVars, flightVars>>

(***************************************************************************)
(* Specifications.  Spec is the whole session; the others are the session  *)
(* with the operations of one part of it, on the same state.               *)
(***************************************************************************)
BootNext == AuthNoUser \/ SignInFails \/ AuthUser \/ ProfileReadOk \/ ProfileReadFails

CreateResults ==
    \/ \E w \in profileWrites : ProfileCreateOk(w)
    \/ \E w \in profileWrites : ProfileCreateFails(w)

UpdateResults ==
    \/ \E w \in profileWrites : ProfileUpdateOk(w)
    \/ \E w \in profileWrites : ProfileUpdateFails(w)

ProfileResults == CreateResults \/ UpdateResults

Navigation == SetCurrentPage("home") \/ SetCurrentPage("settings")

FoodResults ==
    \/ \E w \in mealWrites : FoodWriteOk(w)
    \/ \E w \in mealWrites : FoodWriteFails(w)
    \/ MealsSnapshot

DeleteResults ==
    \/ \E w \in mealWrites : MealDeleteOk(w)
    \/ \E w \in mealWrites : MealDeleteFails(w)

MealResults == FoodResults \/ DeleteResults

\* Adding a meal by hand.
ManualAdd ==
    \/ OpenAddModal
    \/ HandleClose
    \/ SetMode("manual")
    \/ \E manualData \in ManualInputs : HandleManualSubmit(manualData)

MealDialogs ==
    \/ OpenAddModal
    \/ HandleClose
    \/ \E meal \in todaysMeals : HandleEditMeal(meal)
    \/ \E meal \in todaysMeals : HandleDeleteMealRequest(meal)
    \/ CancelDeleteMeal
    \/ ConfirmDeleteMeal
    \/ \E m \in {"main", "manual"} : SetMode(m)
    \/ \E manualData \in ManualInputs : HandleManualSubmit(manualData)

AiNext ==
    \/ SetMode("ai-text")
    \/ \E filled \in BOOLEAN : SetAiText(filled)
    \/ HandleImageChange
    \/ CancelImage
    \/ AnalyzeWithAI
    \/ \E r \in aiRequests : ImageReadOk(r)
    \/ \E r \in aiRequests : ImageReadFails(r)
    \/ \E r \in aiRequests, answer \in AiAnswers : AiAnswer(r, answer)
    \/ DismissAiResult
    \/ HandleAiResultConfirm

WaterNext ==
    \/ WaterMinus
    \/ WaterPlus
    \/ \E w \in waterWrites : WaterWriteOk(w)
    \/ \E w \in waterWrites : WaterWriteFails(w)
    \/ WaterSnapshot

WipeNext ==
    \/ OpenDeleteData
    \/ CancelDeleteData
    \/ HandleDeleteConfirm
    \/ WipeReadMeals
    \/ WipeReadStats
    \/ WipeCommit
    \/ WipeFails

\* The profile forms with every input of FormInputs.
NextProfile ==
    \/ BootNext
    \/ \E formData \in FormInputs : ProfileSetupSubmit(formData)
    \/ \E inputs \in FormInputs : SettingsSubmit(inputs)
    \/ ProfileResults
    \/ Navigation

SpecProfile == Init /\ [][NextProfile]_vars

\* The water counter.
NextWater ==
    \/ BootNext
    \/ \E formData \in FewFormInputs : ProfileSetupSubmit(formData)
    \/ CreateResults
    \/ Navigation
    \/ WaterNext

SpecWater == Init /\ [][NextWater]_vars

\* The meal dialog with the inference service.
\* The session of a user whose profile exists and whose store holds nothing else.
InitMeals == Init /\ profileDoc # Null /\ mealDocs = {} /\ dailyStats = <<>> /\ utcDay = today

NextMeals == BootNext \/ MealResults \/ MealDialogs \/ AiNext

SpecMeals == InitMeals /\ [][NextMeals]_vars

\* Every write of the profile and of the meals, with its two outcomes.
InitWrites == Init /\ mealDocs = {} /\ dailyStats = <<>> /\ utcDay = today

NextWrites ==
    \/ BootNext
    \/ \E formData \in FewFormInputs : ProfileSetupSubmit(formData)
    \/ \E inputs \in FewFormInputs : SettingsSubmit(inputs)
    \/ ProfileResults
    \/ Navigation
    \/ MealResults
    \/ MealDialogs

SpecWrites == InitWrites /\ [][NextWrites]_vars

\* The data wipe among the operations it can overlap, for a user who has a profile,
\* a meal and a water record of an earlier day.
InitWipe ==
    Init /\ profileDoc # Null /\ mealDocs # {} /\ dailyStats # <<>> /\ utcDay = today

WipeForm == [OldForm EXCEPT !.goal = "lose"]

NextWipe ==
    \/ BootNext
    \/ SetupSubmits(WipeForm)
    \/ SettingsSubmits(WipeForm)
    \/ ProfileResults
    \/ Navigation
    \/ FoodResults
    \/ ManualAdd
    \/ WaterNext
    \/ WipeNext

SpecWipe == InitWipe /\ [][NextWipe]_vars

\* Every feature next to the creation and the wipe of the profile, for a user with
\* or without a stored profile.
InitGate == Init /\ mealDocs = {} /\ dailyStats = <<>> /\ utcDay = today

GateAnswers == {a \in AiAnswers : a.kind = "network" \/ a.value = FullEstimate}

NextGate ==
    \/ BootNext
    \/ SetupSubmits(WipeForm)
    \/ CreateResults
    \/ Navigation
    \/ OpenAddModal
    \/ HandleClose
    \/ \E meal \in todaysMeals : HandleEditMeal(meal)
    \/ \E meal \in todaysMeals : HandleDeleteMealRequest(meal)
    \/ ConfirmDeleteMeal
    \/ MealResults
    \/ SetMode("ai-text")
    \/ AnalyzeWithAI
    \/ \E r \in aiRequests, answer \in GateAnswers : AiAnswer(r, answer)
    \/ HandleAiResultConfirm
    \/ WaterPlus
    \/ \E w \in waterWrites : WaterWriteOk(w)
    \/ WaterSnapshot
    \/ WipeNext

SpecGate == InitGate /\ [][NextGate]_vars

\* The meals of the day across local midnight, for a user who has a profile.
InitClock == Init /\ profileDoc # Null /\ dailyStats = <<>> /\ utcDay = today + 1

NextClock == BootNext \/ FoodResults \/ ManualAdd \/ MidnightPasses

SpecClock == InitClock /\ [][NextClock]_vars

\* The home page of a user who has a profile and up to MaxShown meals of today.
InitTotals ==
    /\ InitSession
    /\ today = 2 /\ utcDay = today
    /\ profileDoc = NewProfileData(OldForm, 1)
    /\ mealDocs \in {S \in SUBSET TotalsMeals : Cardinality(S) <= MaxShown}
    /\ dailyStats = <<>>
    /\ nextMealId = 7

NextTotals ==
    \/ BootNext
    \/ MealsSnapshot
    \/ \E meal \in todaysMeals : HandleDeleteMealRequest(meal)
    \/ CancelDeleteMeal
    \/ ConfirmDeleteMeal
    \/ DeleteResults

SpecTotals == InitTotals /\ [][NextTotals]_vars

Next ==
    \/ MidnightPasses
    \/ NextProfile
    \/ MealResults
    \/ MealDialogs
    \/ AiNext
    \/ WaterNext
    \/ WipeNext

Spec == Init /\ [][Next]_vars

\* The water counter with what the event loop and the store guarantee: a request in
\* flight is answered, a pending snapshot is delivered, the boot sequence runs on.
\* Nothing obliges the user to press a button.
WaterFairness ==
    /\ WF_vars(BootNext)
    /\ WF_vars(CreateResults)
    /\ WF_vars(\E w \in waterWrites : WaterWriteOk(w) \/ WaterWriteFails(w))
    /\ WF_vars(WaterSnapshot)

SpecWaterFair == Init /\ [][NextWater]_vars /\ WaterFairness

\* The boot sequence and the profile forms with what the event loop and the store
\* guarantee: the auth callback runs, a read or a write in flight is answered.
\* Nothing obliges the user to submit a form or to change page.
NextSession ==
    \/ BootNext
    \/ \E formData \in FewFormInputs : ProfileSetupSubmit(formData)
    \/ \E inputs \in FewFormInputs : SettingsSubmit(inputs)
    \/ ProfileResults
    \/ Navigation

SessionFairness ==
    /\ WF_vars(BootNext)
    /\ WF_vars(CreateResults)
    /\ WF_vars(UpdateResults)

SpecSessionFair == Init /\ [][NextSession]_vars /\ SessionFairness

(***************************************************************************)
(* Properties.                                                             *)
(***************************************************************************)
StoreIsEmpty == profileDoc = Null /\ mealDocs = {} /\ DOMAIN dailyStats = {}

\* C1: when batch.commit() of a data wipe resolves, the store holds no profile, no
\* meal of any date and no water record, and userProfile is null, whatever meal,
\* water and profile operations came before the wipe or were in flight during it.
C1_WipeLeavesNothing ==
    [][WipeCommit => (StoreIsEmpty' /\ userProfile' = Null)]_vars

\* C2: a data wipe whose getDocs or commit fails tells the user that the wipe
\* failed, and leaves userProfile as it was.
C2_WipeFailureIsShown ==
    [][WipeFails => (lastAlert' # "" /\ userProfile' = userProfile)]_vars

WaterNonNegative ==
    /\ waterCount >= 0
    /\ \A k \in DOMAIN dailyStats : Get(dailyStats[k], "waterCount", 0) >= 0
    /\ \A w \in waterWrites : w.count >= 0

\* C3: the displayed waterCount and every waterCount written to the store are >= 0
\* in every reachable state, and a decrement requested at 0 leaves the counter at 0.
C3_WaterNeverNegative ==
    /\ []WaterNonNegative
    /\ [][(waterCount = 0 /\ WaterMinus) => waterCount' = 0]_vars

\* A decrement was requested at 0: its write is in flight and the counter shows 0.
C3_Witness ==
    /\ HomeShown /\ waterCount = 0
    /\ \E w \in waterWrites : w.requested < 0 /\ w.count = 0

ResultOnScreen ==
    ~isLoading /\ userProfile # Null /\ isAddFoodModalOpen /\ ~modalLoading /\ aiResult # Null

\* C5: a meal write (create or update) whose content is an inference result is only
\* issued by a step taken while that result is displayed with its confirm button,
\* and the meal documents only change when a write in flight resolves.
C5_AiWritesAreConfirmed ==
    [][/\ \A w \in mealWrites' \ mealWrites :
            w.origin = "ai" => (ResultOnScreen /\ w.food = aiResult)
       /\ mealDocs' # mealDocs => \E w \in mealWrites : w \notin mealWrites']_vars

\* A confirmed inference result is stored as a meal.
C5_Witness == \E m \in mealDocs : m.food = FullEstimate

EstimateFields == {"name", "calories", "carbs", "protein", "fat"}

UsableEstimate(answer) ==
    /\ answer.kind = "json"
    /\ answer.value # Null
    /\ EstimateFields \subseteq DOMAIN answer.value

\* C6: an inference answer that is an error, is malformed or lacks one of name,
\* calories, carbs, protein, fat is reported to the user and leaves aiResult null.
C6_BadAnswersAreRejected ==
    [][\A r \in aiRequests, answer \in AiAnswers :
          (~UsableEstimate(answer) /\ AiAnswer(r, answer))
              => (lastAlert' # "" /\ aiResult' = Null)]_vars

\* C7: when the request of an attempt the user has abandoned (the dialog was closed
\* after it started) completes while the dialog is open again, aiResult and the
\* modal's isLoading stay as they are.
C7_AbandonedAttemptsChangeNothing ==
    [][\A r \in aiRequests :
          (r.abandoned /\ isAddFoodModalOpen /\ (\A q \in aiRequests' : q.rid # r.rid))
              => (aiResult' = aiResult /\ modalLoading' = modalLoading)]_vars

SomeNumberEmpty(formData) ==
    formData.height = Empty \/ formData.weight = Empty \/ formData.age = Empty

NoPartialProfile ==
    /\ profileDoc # Null => ~SomeNumberEmpty(profileDoc)
    /\ \A w \in profileWrites : ~SomeNumberEmpty(w.data)

SubmissionRejected ==
    /\ lastAlert' = "Veuillez remplir tous les champs."
    /\ UNCHANGED <<profileWrites, profileDoc, userProfile>>

\* The forms in which height, weight or age is empty.
PartialForms == {formData \in FormInputs : SomeNumberEmpty(formData)}

\* C8: a submission of the profile form, in profile setup or in settings, with
\* height, weight or age empty shows the message, issues no profile write and
\* leaves userProfile unchanged; no profile with one of them empty is ever stored
\* or on its way to the store.
C8_PartialProfileIsRejected ==
    /\ []NoPartialProfile
    /\ [][SubmissionRejected \/
          \A formData \in PartialForms :
              ~ProfileSetupSubmit(formData) /\ ~SettingsSubmit(formData)]_vars

\* The settings form was just rejected while a profile exists.
C8_Witness ==
    /\ lastAlert = "Veuillez remplir tous les champs."
    /\ SettingsShown /\ profileDoc = userProfile /\ profileWrites = {}

\* C9: the stored profile's calorieTarget, carbs, protein and fat are the target
\* calculator's output for the height, weight, age, gender, activityLevel and goal
\* stored in the same document.
C9_DerivedFieldsMatchInputs ==
    profileDoc # Null =>
        \A f \in DerivedFields : profileDoc[f] = ComputeTargets(profileDoc)[f]

\* A settings update has been merged into the profile of an earlier day.
C9_Witness ==
    profileDoc # Null /\ profileDoc.createdAt < today /\ profileDoc.goal # OldForm.goal

FailedProfileWrite ==
    lastRejection' = "handleSubmit" \/ lastAlert' = "Une erreur est survenue."

FailedMealWrite == lastRejection' \in {"handleFoodAction", "confirmDeleteMeal"}

\* C10: a step in which a profile create or update write fails leaves userProfile
\* as it was, and one in which a meal create, edit or delete write fails leaves
\* todaysMeals as it was; userProfile only ever changes to the profile the store
\* holds, and todaysMeals to meals the store holds.
C10_NoAdvancePastFailedWrite ==
    [][/\ FailedProfileWrite => userProfile' = userProfile
       /\ FailedMealWrite => todaysMeals' = todaysMeals
       /\ userProfile' # userProfile => userProfile' = profileDoc'
       /\ todaysMeals' # todaysMeals => todaysMeals' \subseteq mealDocs']_vars

\* A settings update has just failed, for a user who has a meal on screen.
C10_Witness ==
    lastRejection = "handleSubmit" /\ userProfile # Null /\ todaysMeals # {}

PersistenceFailure ==
    \/ \E w \in profileWrites : ProfileCreateFails(w) \/ ProfileUpdateFails(w)
    \/ \E w \in mealWrites : FoodWriteFails(w) \/ MealDeleteFails(w)
    \/ \E w \in waterWrites : WaterWriteFails(w)

\* C11: every step in which a write of the profile (create or settings update), of
\* a meal (create, edit, delete) or of the water counter is rejected tells the user
\* that the operation did not complete.
C11_WriteFailuresAreReported == [][PersistenceFailure => lastAlert' # ""]_vars

\* C12: whenever the main page is rendered, every meal of the displayed list was
\* created on the current local day.
C12_DisplayedMealsAreTodays ==
    MainShown => \A m \in todaysMeals : m.createdAt = today

MealKeys(docs) == {[id |-> m.id, createdAt |-> m.createdAt] : m \in docs}

\* C13: a submission made while a meal is being edited issues an update of that
\* meal's document carrying all five content fields and never an add; when the
\* update is applied the ids and createdAt of the stored meals are what they were
\* and every other meal is unchanged.
C13_EditReplacesContentOnly ==
    [][/\ \A w \in mealWrites' \ mealWrites :
            editingMeal # Null =>
                /\ w.kind = "update" /\ w.id = editingMeal.id
                /\ DOMAIN w.food = EstimateFields
       /\ \A w \in mealWrites :
            (w.kind = "update" /\ FoodWriteOk(w)) =>
                /\ MealKeys(mealDocs') = MealKeys(mealDocs)
                /\ \A m \in mealDocs : m.id # w.id => m \in mealDocs']_vars

RECURSIVE BitsValue(_)
BitsValue(bits) ==
    IF bits = << >> THEN 0
    ELSE 2 * BitsValue(SubSeq(bits, 1, Len(bits) - 1)) + bits[Len(bits)]

\* A number that is an integer, and the integer it is.
IntegerValued(x) == x.e >= 0
NatOf(x) == BitsValue(x.m) * 2^(x.e)

RECURSIVE ExactSum(_, _)
ExactSum(S, field) ==
    IF S = {} THEN 0
    ELSE LET m == CHOOSE m \in S : TRUE
         IN  NatOf(FieldOrZero(m.food, field)) + ExactSum(S \ {m}, field)

IntegerField(field) ==
    \A m \in todaysMeals : IntegerValued(FieldOrZero(m.food, field))

ScenarioLose == [OldForm EXCEPT !.goal = "lose"]

HasInputs(doc, form) == doc # Null /\ \A f \in InputFields : doc[f] = form[f]

\* Every profile document of the session: stored, in flight, or held locally.
ProfileDocuments == {profileDoc, userProfile} \cup {w.data : w \in profileWrites}

\* C15, with the value the code computes: a profile with the inputs of the second
\* scenario has calorieTarget 1730 (BMR 1695.667, times 1.2 and 0.85 is 1729.58).
C15_LoseTargetIs1730 ==
    \A doc \in ProfileDocuments : HasInputs(doc, ScenarioLose) => doc.calorieTarget = 1730

\* The profile of the second scenario has been stored.
C15_Witness == HasInputs(profileDoc, ScenarioLose)

\* C15 as stated: a profile with the inputs of the second scenario has
\* calorieTarget 1729.
C15_LoseTargetIs1729 ==
    \A doc \in ProfileDocuments : HasInputs(doc, ScenarioLose) => doc.calorieTarget = 1729

\* The requests that a step issues: those whose identifier was not in flight before.
IssuedRequests == {r \in aiRequests' : \A q \in aiRequests : q.rid # r.rid}

\* C16: a request issued from the image-confirm step carries the selected image,
\* whether or not a description was typed; it is never text alone.
C16_ImageRequestsCarryTheImage ==
    [][mode = "ai-image-confirm" => \A r \in IssuedRequests : r.parts = "text+image"]_vars

\* An analysis of an image with a typed description has been started.
C16_Witness ==
    mode = "ai-image-confirm" /\ aiImage /\ aiText /\ aiRequests # {}

\* What the user can do to the meals, the water counter or the analysis: open or use
\* the meal dialogs, press a water button, start an analysis or confirm its result.
MealWaterOrAiAction ==
    \/ OpenAddModal
    \/ \E meal \in todaysMeals : HandleEditMeal(meal) \/ HandleDeleteMealRequest(meal)
    \/ ConfirmDeleteMeal
    \/ \E manualData \in ManualInputs : HandleManualSubmit(manualData)
    \/ HandleAiResultConfirm
    \/ AnalyzeWithAI
    \/ WaterMinus
    \/ WaterPlus

\* C17: while the session has no profile, no step is an action of the user on the
\* meals, the water counter or the analysis, and no step issues a meal write, a water
\* write or an analysis request.
C17_NoProfileNoFeature ==
    /\ [](userProfile = Null => ~ENABLED MealWaterOrAiAction)
    /\ [][userProfile = Null =>
             /\ ~MealWaterOrAiAction
             /\ mealWrites' \subseteq mealWrites
             /\ waterWrites' \subseteq waterWrites
             /\ IssuedRequests = {}]_vars

\* The data wipe has removed the profile of a session that had used the features.
C17_Witness ==
    /\ userProfile = Null /\ ~isLoading /\ profileDoc = Null
    /\ wipe.pc = "done" /\ isAddFoodModalOpen

\* C18: the water record that the session reads and writes is the one keyed by the
\* current local day, which is also the day of the meals query.
C18_WaterKeyIsTheLocalDay ==
    /\ HomeShown => getTodayDateString = today /\ getTodayDateString = mealsWindow
    /\ \A w \in waterWrites : w.key = today /\ w.key = mealsWindow

\* A water write is in flight while the meals of the local day are listed.
C18_Witness == HomeShown /\ mealsWindow = today /\ waterWrites # {}

\* C19: a submission of the settings form ends its busy state whether the write
\* succeeds or fails, and "Profil mis à jour !" is shown only by a write that succeeded.
C19_SettingsSubmissionEnds ==
    /\ settingsLoading ~> ~settingsLoading
    /\ [][lastAlert' = "Profil mis à jour !" => \E w \in profileWrites : ProfileUpdateOk(w)]_vars

\* The settings form is busy with a submission in flight.
C19_Witness ==
    SettingsShown /\ settingsLoading /\ \E w \in profileWrites : w.kind = "update" /\ w.live

\* C20: once the authentication provider has delivered a user, the session leaves the
\* loading state and shows the profile setup or the main page, whatever the outcome
\* of the profile read.
C20_LoadingEnds == (authUser = "user") ~> (~isLoading /\ (SetupShown \/ MainShown))

\* The profile read is in flight behind the spinner.
C20_Witness == authUser = "user" /\ isLoading /\ profileRead = "pending"
====
